---- MODULE Spec2Model ----
(***************************************************************************)
(* A model of mod_ci/controllers.py of the sample platform: the scheduler  *)
(* (kvm_processor), the progress reporter and the cancellation paths.      *)
(*                                                                         *)
(* The database tables are variables: Test (tests), TestProgress           *)
(* (progress), Kvm (kvm), GeneralData (general_data).  The libvirt domain  *)
(* of a platform is vm[p].  kvm_processor runs in its own process          *)
(* (start_platforms), so one pass is a sequence of steps, one per access   *)
(* to the domain or to the tables that another pass can change in between, *)
(* and the steps of several passes interleave.  A request handler of the   *)
(* web application is one step; ReadProgress and WriteProgress split the   *)
(* progress handler where it reads the events of the test and where it     *)
(* commits, for the workers of the web server that run side by side.       *)
(***************************************************************************)
EXTENDS Integers, Sequences, FiniteSets, TLC

\* ------------------------------------------------------------------ bounds
MaxTests == 2
MaxTime == 1
MaxEvents == 4
MaxReports == 1
MaxSlots == 2
\* config KVM_MAX_RUNTIME, in clock ticks of the model
KVM_MAX_RUNTIME == 1
MaxSamples == 4
MaxSample == 3
MaxHandlers == 2
MaxComments == 3

Platforms == {"linux", "windows"}
TestIds == 1..MaxTests
Slots == 1..MaxSlots
Times == 0..MaxTime
Handlers == 1..MaxHandlers
NoTest == 0
None == -1

\* ------------------------------------------------------------------ state
VARIABLES
    tests,          \* table Test: id -> row
    progress,       \* table TestProgress: test id -> its events, in insertion order
    kvm,            \* table Kvm: a set of rows
    vm,             \* libvirt domain state per platform
    vmRun,          \* the test whose reportURL a running domain booted with (NoTest: shut off)
    kvm_name,       \* config KVM_LINUX_NAME / KVM_WINDOWS_NAME ("" when not configured)
    maintenance,    \* table MaintenanceMode: platform -> disabled
    passes,         \* the running kvm_processor processes
    ghStatus,       \* the last commit status posted to GitHub per test
    general_data,   \* table GeneralData: key -> value, for the keys that have a row
    results,        \* table TestResult: a set of rows
    result_files,   \* table TestResultFile: a set of rows
    response,       \* the last request of a client on the network and its answer
    samples,        \* the durations FeedSample has passed to set_avg_time, in order
    handlers,       \* the requests a worker of the web server is handling
    comments,       \* the comments on the pull requests at GitHub, oldest first
    vm_data,        \* the test files of the last generation in vm_data/<kvm_name>/ci-tests
    now             \* the clock

vars == <<tests, progress, kvm, vm, vmRun, kvm_name, maintenance,
          passes, ghStatus, general_data, results, result_files, response,
          samples, handlers, comments, vm_data, now>>

\* what the scheduler leaves alone
ingest == <<general_data, results, result_files, response, samples, handlers,
            comments, vm_data>>

\* ------------------------------------------------------------ the tables
\* The commits under test; commit 0 is the one of the test of id NoTest, which ran on
\* every platform before the tests of the queue.
Commits == 0..MaxTests

\* A Test row.  fork "main" is the Fork row of the canonical repository.
TestRow == [platform : Platforms, test_type : {"commit", "pull_request"},
            fork : {"main", "fork"}, pr_nr : 0..1, commit : Commits]

\* The rows a queue can hold: commit tests have pr_nr 0 (queue_test's default), and
\* the pull-request tests queue_test creates are bound to the main Fork row.
QueueableRow(r) ==
    /\ r.test_type = "commit" => r.pr_nr = 0
    /\ r.test_type = "pull_request" => r.fork = "main"

TerminalStatuses == {"canceled", "completed"}

\* TestProgress(test_id, status, message): an event of the test it is appended to.
\* The events of a test are kept in insertion order, which is their timestamp order.
TestProgress(status, message) ==
    [status |-> status, message |-> message]

\* Kvm(name, test_id): the row as constructed, timestamp = now
Kvm(name, test_id, ts) ==
    [name |-> name, test_id |-> test_id, timestamp |-> ts,
     timestamp_prep_finished |-> None, timestamp_build_finished |-> None]

\* a query without the filter on the name: the rows of every domain
KvmByName_any(name) == kvm

\* Kvm.query.filter(Kvm.name == name): the rows of that name
KvmByName(name) == {k \in kvm : k.name = name}

\* Kvm.query.filter(Kvm.test_id == test_id)
KvmByTest(test_id) == {k \in kvm : k.test_id = test_id}

\* a table without a key: every insert is accepted
KvmInsertOK_unkeyed(name) == TRUE

\* The Kvm table's primary key is the VM name: an insert of a second row of
\* the same name raises IntegrityError.
KvmInsertOK(name) == KvmByName(name) = {}

\* db.query(TestProgress.test_id).filter(status in [canceled, completed])
finished_tests ==
    {t \in DOMAIN progress :
        \E i \in 1..Len(progress[t]) : progress[t][i].status \in TerminalStatuses}

Min(S) == CHOOSE x \in S : \A y \in S : x <= y

\* the oldest unfinished test of the platform, of whatever repository
OldestTest_any(p) ==
    LET open == {t \in DOMAIN tests : t \notin finished_tests /\ tests[t].platform = p}
    IN  IF open # {} THEN Min(open) ELSE NoTest

\* The oldest test of the platform: of the main repository first, else of any fork.
\* NoTest when there is none.
OldestTest(p) ==
    LET open == {t \in DOMAIN tests : t \notin finished_tests /\ tests[t].platform = p}
        main == {t \in open : tests[t].fork = "main"}
    IN  IF main # {} THEN Min(main)
        ELSE IF open # {} THEN Min(open)
        ELSE NoTest

\* ------------------------------------------------------------ a pass
\* The local variables of a kvm_processor process: where it is (pc), its platform,
\* the test it selected and the timestamp of the Kvm row it constructed; events
\* counts the TestProgress rows it has added so far.
IdlePass == [pc |-> "idle", platform |-> "linux", test |-> NoTest, ts |-> 0,
             events |-> 0]

\* the pass of slot s returns
Return(s) == [passes EXCEPT ![s] = IdlePass]
Goto(s, pc) == [passes EXCEPT ![s].pc = pc]

\* a destroy that leaves the domain as it is
Destroyed_still(p) == vm

\* vm.destroy(), and a revert to the snapshot: the domain is shut off
Destroyed(p) == [vm EXCEPT ![p] = "shutoff"]
RunCleared(p) == [vmRun EXCEPT ![p] = NoTest]

\* a lease that has always run out
Expired_always(status) == TRUE

\* an event of that message that does not close the test
RuntimeExceeded_open == TestProgress("testing", "Runtime exceeded")

\* an event of that message that does not close the test
CouldNotMerge_open == TestProgress("preparation", "Commit could not be merged")

\* no test is taken for invalid
InvalidTest_never(row) == FALSE

\* a lease that never runs out
Expired_never(status) == FALSE

\* line 160: the lease has run out
Expired(status) == now - status.timestamp >= KVM_MAX_RUNTIME

\* line 161: the event of a run that took too long
RuntimeExceeded == TestProgress("canceled", "Runtime exceeded")

\* line 372: the event of a pull request that cannot be merged
CouldNotMerge == TestProgress("canceled", "Commit could not be merged")

\* line 202: a pull-request test without a pull-request number
InvalidTest(row) == row.test_type = "pull_request" /\ row.pr_nr = 0

\* start_platforms starts a process that runs kvm_processor: lines 101-175, the
\* checks before the domain is known to be shut off.  The process takes the lowest
\* free slot.
\* infra = FALSE: libvirt cannot be opened or has no such domain.
\* destroy_ok = FALSE: vm.destroy() returns -1.
Begin(s, p, infra, destroy_ok) ==
    LET rows == KvmByName(kvm_name[p])
        status == CHOOSE k \in rows : TRUE
        on == [IdlePass EXCEPT !.platform = p, !.pc = "select"]
    IN
    /\ passes[s].pc = "idle"
    /\ \A s2 \in Slots : s2 < s => passes[s2].pc # "idle"
    /\ UNCHANGED <<tests, kvm_name, maintenance, ghStatus, ingest, now>>
    /\ IF kvm_name[p] = "" \/ maintenance[p] \/ ~infra
       THEN UNCHANGED <<progress, kvm, vm, vmRun, passes>>
       ELSE IF vm[p] = "shutoff"
       THEN /\ passes' = [passes EXCEPT ![s] = on]
            /\ UNCHANGED <<progress, kvm, vm, vmRun>>
       ELSE IF rows # {} /\ ~Expired(status)
       THEN UNCHANGED <<progress, kvm, vm, vmRun, passes>>
       ELSE /\ IF rows # {}
               THEN /\ Len(progress[status.test_id]) < MaxEvents
                    /\ progress' = [progress EXCEPT ![status.test_id] =
                           Append(@, RuntimeExceeded)]
                    /\ kvm' = kvm \ {status}
               ELSE UNCHANGED <<progress, kvm>>
            /\ IF destroy_ok
               THEN /\ vm' = Destroyed(p)
                    /\ vmRun' = RunCleared(p)
                    /\ passes' = [passes EXCEPT ![s] =
                           [on EXCEPT !.events = IF rows # {} THEN 1 ELSE 0]]
               ELSE UNCHANGED <<vm, vmRun, passes>>

\* Lines 177-206: a Kvm row of the domain, which is shut off, is deleted; then the
\* test to run is selected, and an invalid pull-request test is deleted.
Select(s) ==
    LET p == passes[s].platform
        test == OldestTest(p)
    IN
    /\ passes[s].pc = "select"
    /\ kvm' = kvm \ KvmByName(kvm_name[p])
    /\ IF test = NoTest
       THEN /\ passes' = Return(s)
            /\ UNCHANGED tests
       ELSE IF InvalidTest(tests[test])
       THEN /\ tests' = [t \in DOMAIN tests \ {test} |-> tests[t]]
            /\ passes' = Return(s)
       ELSE /\ passes' = [passes EXCEPT ![s].pc = "revert", ![s].test = test]
            /\ UNCHANGED tests
    /\ UNCHANGED <<progress, vm, vmRun, kvm_name, maintenance, ghStatus, ingest, now>>

\* Lines 208-220: revert the domain to its snapshot (a snapshot of the shut-off
\* machine, which vm.create() starts), and construct the Kvm row.
\* ok = FALSE: there is no current snapshot, or the revert returns -1.
Revert(s, ok) ==
    LET p == passes[s].platform IN
    /\ passes[s].pc = "revert"
    /\ IF ok
       THEN /\ vm' = Destroyed(p)
            /\ vmRun' = RunCleared(p)
            /\ passes' = [passes EXCEPT ![s].pc = "prepare", ![s].ts = now]
       ELSE /\ passes' = Return(s)
            /\ UNCHANGED <<vm, vmRun>>
    /\ UNCHANGED <<tests, progress, kvm, kvm_name, maintenance, ghStatus, ingest, now>>

\* Lines 221-397: write the report URL and the test files, update the clone.
\* outcome "fail": the clone cannot be opened, fetched, pulled or reset, or the
\* pull request cannot be read; "conflict": pull['mergeable'] is False; "ok".
Prepare(s, outcome) ==
    LET test == passes[s].test IN
    /\ passes[s].pc = "prepare"
    /\ outcome = "conflict" => tests[test].test_type = "pull_request"
    /\ IF outcome = "conflict"
       THEN /\ Len(progress[test]) < MaxEvents
            /\ progress' = [progress EXCEPT ![test] =
                   Append(@, CouldNotMerge)]
            /\ ghStatus' = [ghStatus EXCEPT ![test] = "failure"]
            /\ passes' = Return(s)
       ELSE /\ passes' = IF outcome = "ok" THEN Goto(s, "poweron") ELSE Return(s)
            /\ UNCHANGED <<progress, ghStatus>>
    /\ UNCHANGED <<tests, kvm, vm, vmRun, kvm_name, maintenance, ingest, now>>

\* Lines 399-401: vm.create().  It raises libvirtError when the domain is running
\* already, or when it cannot be started (ok = FALSE).  The machine boots with the
\* report URL of the pass's test.
PowerOn(s, ok) ==
    LET p == passes[s].platform IN
    /\ passes[s].pc = "poweron"
    /\ IF vm[p] = "shutoff" /\ ok
       THEN /\ vm' = [vm EXCEPT ![p] = "running"]
            /\ vmRun' = [vmRun EXCEPT ![p] = passes[s].test]
            /\ passes' = Goto(s, "addlease")
       ELSE /\ passes' = Return(s)
            /\ UNCHANGED <<vm, vmRun>>
    /\ UNCHANGED <<tests, progress, kvm, kvm_name, maintenance, ghStatus, ingest, now>>

\* Lines 402-409: db.add(status); db.commit(); IntegrityError is logged.
AddLease(s) ==
    LET p == passes[s].platform IN
    /\ passes[s].pc = "addlease"
    /\ kvm' = IF KvmInsertOK(kvm_name[p])
              THEN kvm \cup {Kvm(kvm_name[p], passes[s].test, passes[s].ts)}
              ELSE kvm
    /\ passes' = Return(s)
    /\ UNCHANGED <<tests, progress, vm, vmRun, kvm_name, maintenance, ghStatus,
                   ingest, now>>

kvm_processor(s) ==
    \/ \E p \in Platforms, infra \in BOOLEAN, ok \in BOOLEAN : Begin(s, p, infra, ok)
    \/ Select(s)
    \/ \E ok \in BOOLEAN : Revert(s, ok)
    \/ \E outcome \in {"ok", "fail", "conflict"} : Prepare(s, outcome)
    \/ \E ok \in BOOLEAN : PowerOn(s, ok)
    \/ AddLease(s)

\* ------------------------------------------------------------ the progress reporter
\* TestStatus members, as request.form['status'] names them
TestStatus == {"preparation", "building", "testing", "completed", "canceled"}

\* TestStatus.progress_step(status): the rank of a status in the order of progress,
\* preparation(0) < building(1) < testing(2) < completed(3); canceled is reachable
\* from every rank and nothing follows it.
progress_step(status) ==
    CASE status = "preparation" -> 0
      [] status = "building" -> 1
      [] status = "testing" -> 2
      [] status = "completed" -> 3
      [] status = "canceled" -> 4

\* The values line 803 compares: progress_step's rank is an int, the members of the
\* list are TestStatus symbols.  Python's `in` compares with ==, and an int equals no
\* enum symbol.
PyInt(n) == [type |-> "int", int |-> n, name |-> ""]
PySymbol(name) == [type |-> "TestStatus", int |-> 0, name |-> name]

\* line 803: last_status in [TestStatus.completed, TestStatus.canceled]
last_status_closed(last_status) ==
    PyInt(last_status) \in {PySymbol("completed"), PySymbol("canceled")}

\* GeneralData keys
FetchCommitKey(p) == <<"fetch_commit", p>>
AverageTimeKey(p) == <<"average_time", p>>
ValKey(process_type, p) == <<"avg_time", process_type, p>>
CountKey(process_type, p) == <<"avg_count", process_type, p>>

\* GeneralData with the row of key k set to v (added when there is none)
SetData(gd, k, v) == [x \in DOMAIN gd \cup {k} |-> IF x = k THEN v ELSE gd[x]]

\* set_avg_time(platform, process_type, time_taken), lines 1119-1150.  The average
\* is stored as a string of a float: here the fraction num/den; int(float(.)) truncates.
set_avg_time(gd, p, process_type, time_taken) ==
    LET val_key == ValKey(process_type, p)
        count_key == CountKey(process_type, p)
    IN  IF count_key \notin DOMAIN gd
        THEN SetData(SetData(gd, count_key, 1), val_key, [num |-> time_taken, den |-> 1])
        ELSE LET avg_count == gd[count_key]
                 avg_value == gd[val_key].num \div gd[val_key].den
             IN  SetData(SetData(gd, count_key, avg_count + 1), val_key,
                         [num |-> (avg_value * avg_count) + time_taken, den |-> avg_count + 1])

\* set_avg_time("linux", "prep", time_taken) on its own, as lines 822 and 832 call
\* it with the duration of a phase in seconds
FeedSample(time_taken) ==
    /\ Len(samples) < MaxSamples
    /\ general_data' = set_avg_time(general_data, "linux", "prep", time_taken)
    /\ samples' = Append(samples, time_taken)
    /\ UNCHANGED <<tests, progress, kvm, vm, vmRun, kvm_name, maintenance, passes,
                   ghStatus, results, result_files, response, handlers, comments,
                   vm_data, now>>

\* The catalog of regression tests: case 1 with expected_rc 0, case 2 with
\* expected_rc 1.
RegressionTests == {1, 2}
expected_rc(rt) == IF rt = 1 THEN 0 ELSE 1

\* RegressionTest.query.count()
regression_test_count == Cardinality(RegressionTests)

\* is_main_repo(test.fork.github)
is_main_repo(t) == tests[t].fork = "main"

\* the report is persisted as it was posted
Coerced_kept(plain) == plain

\* lines 806-808: a report of a lower rank than the last event's
Coerced(plain) == [plain EXCEPT !.status = "canceled", !.message = "Duplicate Entries"]

\* a handler that takes a report of the rank of the last event for a duplicate
Step1At_strict(events, t, reported, message) ==
    LET plain == [raised |-> FALSE, status |-> reported, message |-> message,
                  kvm |-> kvm, gd |-> general_data]
    IN  IF Len(events) > 0
           /\ progress_step(events[Len(events)].status) >= progress_step(reported)
        THEN Coerced(plain)
        ELSE plain

\* Lines 796-836: what is appended and what happens to the Kvm row, for a handler
\* that has loaded test.progress as events (line 796).  The result is
\* [raised, status, message, kvm, gd]: raised = TRUE when the handler raises before
\* the event is added (kvm and gd are what was committed until then); status =
\* "rejected" when it returns False.
Step1At(events, t, reported, message) ==
    LET current_status == progress_step(reported)
        last_status == progress_step(events[Len(events)].status)
        kvm_rows == KvmByTest(t)
        kvm_entry == CHOOSE k \in kvm_rows : TRUE
        plain == [raised |-> FALSE, status |-> reported, message |-> message,
                  kvm |-> kvm, gd |-> general_data]
    IN
    IF Len(events) = 0 THEN plain
    ELSE IF last_status_closed(last_status)
    THEN [plain EXCEPT !.status = "rejected"]
    ELSE IF last_status > current_status
    THEN Coerced(plain)
    ELSE IF last_status < current_status /\ reported = "building"
    THEN IF kvm_rows = {}
         THEN [plain EXCEPT !.raised = TRUE]
         ELSE [plain EXCEPT
                 !.kvm = (kvm \ {kvm_entry}) \cup
                         {[kvm_entry EXCEPT !.timestamp_prep_finished = now]},
                 !.gd = set_avg_time(general_data, tests[t].platform, "prep",
                                     now - kvm_entry.timestamp)]
    ELSE IF last_status < current_status /\ reported = "testing"
    THEN IF kvm_rows = {}
         THEN [plain EXCEPT !.raised = TRUE]
         ELSE IF kvm_entry.timestamp_prep_finished = None
         THEN [plain EXCEPT
                 !.raised = TRUE,
                 !.kvm = (kvm \ {kvm_entry}) \cup
                         {[kvm_entry EXCEPT !.timestamp_build_finished = now]}]
         ELSE [plain EXCEPT
                 !.kvm = (kvm \ {kvm_entry}) \cup
                         {[kvm_entry EXCEPT !.timestamp_build_finished = now]},
                 !.gd = set_avg_time(general_data, tests[t].platform, "build",
                                     now - kvm_entry.timestamp_prep_finished)]
    ELSE plain

\* the handler alone: test.progress is what the table holds
Step1(t, reported, message) == Step1At(progress[t], t, reported, message)

\* Lines 843-846: the id of the first Test of the pinned commit and the platform
\* (the row of the lowest id)
fetch_commit(gd, p) ==
    Min({t \in DOMAIN tests : tests[t].commit = gd[FetchCommitKey(p)] /\ tests[t].platform = p}
        \cup {t \in {NoTest} : gd[FetchCommitKey(p)] = 0})

\* Lines 840-850: the commit of a completed commit test of the main repository
\* whose id is greater than the id of the first test of the pinned commit becomes
\* the pinned commit.
Pinned(gd, t, status) ==
    IF /\ status = "completed" /\ is_main_repo(t)
       /\ tests[t].test_type = "commit" /\ t > fetch_commit(gd, tests[t].platform)
    THEN SetData(gd, FetchCommitKey(tests[t].platform), tests[t].commit)
    ELSE gd

\* Lines 855-913: the average running time.  With no row yet it is computed from
\* the finished tests; else it is updated with all_results / regression_test_count
\* as the number of tests, and `updated_average // number_test` raises
\* ZeroDivisionError when there is no TestResult row at all.  The value is kept
\* as "set": no step reads it.
AverageRaises(gd, t) ==
    AverageTimeKey(tests[t].platform) \in DOMAIN gd /\ Cardinality(results) = 0

Averaged(gd, t) == SetData(gd, AverageTimeKey(tests[t].platform), "set")

\* lines 934-938: the results of the test with an exit code that is not the expected
crashes(t) == {r \in results : r.test_id = t /\ r.exit_code # r.expected_rc}

\* lines 939-948: the result files of the test of a case with expected_rc 0 whose
\* "got" is set
results_got(t) ==
    {f \in result_files : /\ f.test_id = t
                          /\ f.regression_test_id \in {rt \in RegressionTests : expected_rc(rt) = 0}
                          /\ f.got # None}

\* Lines 922-961: the state posted to GitHub
PostedState(t, status) ==
    IF status = "canceled" THEN "error"
    ELSE IF status = "completed"
    THEN IF Cardinality(crashes(t)) > 0 \/ Cardinality(results_got(t)) > 0
         THEN "failure" ELSE "success"
    ELSE "pending"

\* A comment on pull request pr_nr: the login of its author and, of its body, the
\* platform names it contains and the test it reports.
Comment(pr_nr, login, platforms, test_id) ==
    [pr_nr |-> pr_nr, login |-> login, platforms |-> platforms, test_id |-> test_id]

\* The message comment_pr renders from ci/pr_comment.txt with test_id, state and
\* platform (lines 1192-1194): it names the platform of the test and no other.
Message(pr_nr, test_id, platform) == Comment(pr_nr, "bot", {platform}, test_id)

\* the comment is posted anew whatever the pull request holds
comment_pr_always_posts(cs, test_id, pr_nr, platform) ==
    Append(cs, Message(pr_nr, test_id, platform))

\* comment_pr(test_id, state, pr_nr, platform), lines 1196-1215, when GitHub
\* answers: the first comment of the pull request by the bot whose body contains
\* the platform is edited, and with none the message is posted as a new comment.
comment_pr(cs, test_id, pr_nr, platform) ==
    LET found == {i \in 1..Len(cs) : /\ cs[i].pr_nr = pr_nr
                                      /\ cs[i].login = "bot"
                                      /\ platform \in cs[i].platforms}
    IN  IF found = {}
        THEN Append(cs, Message(pr_nr, test_id, platform))
        ELSE [cs EXCEPT ![Min(found)] = Message(pr_nr, test_id, platform)]

\* start_platforms(db, repository, delay, platform), lines 84-98: the platforms a
\* kvm_processor process is started for ("any": platform is None)
start_platforms(platform) == {p \in Platforms : platform = "any" \/ platform = p}

\* progress_type_request, lines 783-979, as a function of the tables: the answer of
\* progress_reporter (lines 752-756 and 778; "ERROR" when the handler raises), the
\* event appended if any, the tables after it, and the platforms a pass is started
\* for (lines 975-977).
progress_type_request_at(events, t, reported, message) ==
    LET r == Step1At(events, t, reported, message)
        terminal == r.status \in TerminalStatuses
        gd1 == Pinned(r.gd, t, r.status)
        same == [answer |-> "FAIL", appended |-> FALSE,
                 event |-> TestProgress(r.status, r.message),
                 kvm |-> kvm, gd |-> general_data, posted |-> ghStatus[t],
                 started |-> {}, comments |-> comments]
    IN  IF r.status = "rejected" THEN same
        ELSE IF r.raised
        THEN [same EXCEPT !.answer = "ERROR", !.kvm = r.kvm, !.gd = r.gd]
        ELSE IF terminal /\ AverageRaises(gd1, t)
        THEN [same EXCEPT !.answer = "ERROR", !.appended = TRUE, !.kvm = r.kvm, !.gd = gd1]
        ELSE [same EXCEPT
                !.answer = "OK", !.appended = TRUE,
                !.kvm = IF terminal THEN r.kvm \ {k \in r.kvm : k.test_id = t} ELSE r.kvm,
                !.gd = IF terminal THEN Averaged(gd1, t) ELSE gd1,
                !.posted = PostedState(t, r.status),
                !.started = IF terminal THEN start_platforms(tests[t].platform) ELSE {},
                !.comments = IF r.status = "completed" /\ tests[t].test_type = "pull_request"
                             THEN comment_pr(comments, t, tests[t].pr_nr, tests[t].platform)
                             ELSE comments]

progress_type_request(t, reported, message) ==
    progress_type_request_at(progress[t], t, reported, message)

\* The virtual machine of platform p, booted with the report URL of test t (id and
\* token), posts a progress report: progress_reporter, lines 748-756.
ProgressHandled(t, reported, message) ==
    LET out == progress_type_request(t, reported, message) IN
    /\ t \in DOMAIN tests
    /\ \E p \in Platforms : vmRun[p] = t
    /\ Len(progress[t]) < MaxEvents
    /\ progress' = IF out.appended
                   THEN [progress EXCEPT ![t] = Append(@, out.event)]
                   ELSE progress
    /\ kvm' = out.kvm
    /\ general_data' = out.gd
    /\ ghStatus' = [ghStatus EXCEPT ![t] = out.posted]
    /\ comments' = out.comments
    /\ UNCHANGED <<tests, vm, vmRun, kvm_name, maintenance, passes, results,
                   result_files, vm_data, now>>

ProgressReport(t, reported, message) ==
    ProgressHandled(t, reported, message) /\ UNCHANGED <<response, samples, handlers>>

\* the post of the status raises and the handler with it
StatusPost_fatal(out, old, post_ok) ==
    IF post_ok THEN out
    ELSE [out EXCEPT !.posted = old, !.answer = "ERROR", !.started = {}]

\* Lines 967-971: gh_commit.post(state=...) in try/except ApiError.  A post that
\* fails posts nothing; the error is logged and the handler goes on.
StatusPost(out, old, post_ok) ==
    IF post_ok THEN out ELSE [out EXCEPT !.posted = old]

\* progress_type_request with the outcome of the status post as an input
progress_type_request_post(t, reported, message, post_ok) ==
    LET out == progress_type_request(t, reported, message)
    IN  IF out.answer = "OK" THEN StatusPost(out, ghStatus[t], post_ok) ELSE out

\* A progress report of the domain of test t that reaches the status post while
\* GitHub answers with an error (ApiError).
ProgressUnposted(t, reported, message) ==
    LET out == progress_type_request_post(t, reported, message, FALSE) IN
    /\ t \in DOMAIN tests
    /\ \E p \in Platforms : vmRun[p] = t
    /\ Len(progress[t]) < MaxEvents
    /\ progress_type_request(t, reported, message).answer = "OK"
    /\ progress' = IF out.appended
                   THEN [progress EXCEPT ![t] = Append(@, out.event)]
                   ELSE progress
    /\ kvm' = out.kvm
    /\ general_data' = out.gd
    /\ ghStatus' = [ghStatus EXCEPT ![t] = out.posted]
    /\ comments' = out.comments
    /\ UNCHANGED <<tests, vm, vmRun, kvm_name, maintenance, passes, results,
                   result_files, response, samples, handlers, vm_data, now>>

\* progress_reporter with type "finish": finish_type_request, lines 1093-1116.
\* (test id, regression test id) is the key of TestResult: a second row of the
\* same key raises IntegrityError, which is logged.
FinishHandled(t, rt, exit_code) ==
    /\ t \in DOMAIN tests
    /\ \E p \in Platforms : vmRun[p] = t
    /\ results' = IF \E r \in results : r.test_id = t /\ r.regression_test_id = rt
                  THEN results
                  ELSE results \cup {[test_id |-> t, regression_test_id |-> rt,
                                      exit_code |-> exit_code,
                                      expected_rc |-> expected_rc(rt)]}
    /\ UNCHANGED <<tests, progress, kvm, vm, vmRun, kvm_name, maintenance,
                   passes, ghStatus, general_data, result_files, comments,
                   vm_data, now>>

FinishReport(t, rt, exit_code) ==
    FinishHandled(t, rt, exit_code) /\ UNCHANGED <<response, samples, handlers>>

\* TestResultFile(test.id, regression test id, rto.id, rto.correct[, got])
TestResultFile(t, rt, got) == [test_id |-> t, regression_test_id |-> rt, got |-> got]

\* progress_reporter with type "equality": equality_type_request, lines 982-1006.
\* The output of the case equals the expected one: a row without "got"; none when
\* the output file is not in the catalog (has_rto = FALSE).
EqualityHandled(t, rt, has_rto) ==
    /\ t \in DOMAIN tests
    /\ \E p \in Platforms : vmRun[p] = t
    /\ result_files' = IF has_rto THEN result_files \cup {TestResultFile(t, rt, None)}
                       ELSE result_files
    /\ UNCHANGED <<tests, progress, kvm, vm, vmRun, kvm_name, maintenance,
                   passes, ghStatus, general_data, results, comments, vm_data, now>>

EqualityReport(t, rt, has_rto) ==
    EqualityHandled(t, rt, has_rto) /\ UNCHANGED <<response, samples, handlers>>

\* progress_reporter with type "upload": upload_type_request, lines 1044-1090.  The
\* output of the case differs: the file is stored and the row has its hash as "got"
\* (a positive number here).
UploadHandled(t, rt) ==
    /\ t \in DOMAIN tests
    /\ \E p \in Platforms : vmRun[p] = t
    /\ result_files' = result_files \cup {TestResultFile(t, rt, rt)}
    /\ UNCHANGED <<tests, progress, kvm, vm, vmRun, kvm_name, maintenance,
                   passes, ghStatus, general_data, results, comments, vm_data, now>>

UploadReport(t, rt) ==
    UploadHandled(t, rt) /\ UNCHANGED <<response, samples, handlers>>

\* A worker that handles no request
IdleHandler == [pc |-> "idle", test |-> NoTest, status |-> "preparation", seen |-> <<>>]

\* Worker h takes a progress report of the domain of test t and loads the test with
\* its events: progress_reporter line 748, progress_type_request lines 794-797.
\* No worker waits for another: the handlers take no lock.
ReadProgress(h, t, reported) ==
    /\ handlers[h].pc = "idle"
    /\ t \in DOMAIN tests
    /\ \E p \in Platforms : vmRun[p] = t
    /\ Len(progress[t]) < MaxReports + 1
    /\ handlers' = [handlers EXCEPT
                      ![h] = [pc |-> "write", test |-> t, status |-> reported,
                              seen |-> progress[t]]]
    /\ UNCHANGED <<tests, progress, kvm, vm, vmRun, kvm_name, maintenance, passes,
                   ghStatus, general_data, results, result_files, response, samples,
                   comments, vm_data, now>>

\* Worker h decides on the events it has loaded and commits: lines 799-979.
WriteProgress(h) ==
    LET t == handlers[h].test
        out == progress_type_request_at(handlers[h].seen, t, handlers[h].status, "reported")
    IN  /\ handlers[h].pc = "write"
        /\ handlers' = [handlers EXCEPT ![h] = IdleHandler]
        /\ progress' = IF out.appended
                       THEN [progress EXCEPT ![t] = Append(@, out.event)]
                       ELSE progress
        /\ kvm' = out.kvm
        /\ general_data' = out.gd
        /\ ghStatus' = [ghStatus EXCEPT ![t] = out.posted]
        /\ comments' = out.comments
        /\ UNCHANGED <<tests, vm, vmRun, kvm_name, maintenance, passes, results,
                       result_files, response, samples, vm_data, now>>

\* Test.token: the secret of the report URL of a test, one per test
Token(t) == t
Tokens == TestIds

Response(test_id, token, type, answer) ==
    [test_id |-> test_id, token |-> token, type |-> type, answer |-> answer]
NoResponse == Response(NoTest, NoTest, "none", "none")

Authorized_no_token(test_id, token) == test_id \in DOMAIN tests

\* progress_reporter, lines 748-749: the test exists and the token is its token
Authorized(test_id, token) ==
    test_id \in DOMAIN tests /\ Token(test_id) = token

\* progress_reporter, lines 735-780: a POST of any client to
\* /progress-reporter/<test_id>/<token>.  The answer is "FAIL" when the request is
\* not authorized or its type is unknown; the handlers' exceptions are the
\* answer "ERROR".
Callback(test_id, token) ==
    /\ UNCHANGED <<samples, handlers>>
    /\ IF Authorized(test_id, token)
       THEN \/ \E st \in {"preparation", "completed"} :
                 /\ ProgressHandled(test_id, st, "reported")
                 /\ response' = Response(test_id, token, "progress",
                                    progress_type_request(test_id, st, "reported").answer)
            \/ /\ \E rt \in RegressionTests : FinishHandled(test_id, rt, 1)
               /\ response' = Response(test_id, token, "finish", "OK")
            \/ /\ \E rt \in RegressionTests : UploadHandled(test_id, rt)
               /\ response' = Response(test_id, token, "upload", "OK")
            \/ /\ \E rt \in RegressionTests : EqualityHandled(test_id, rt, TRUE)
               /\ response' = Response(test_id, token, "equality", "OK")
            \/ /\ response' = Response(test_id, token, "other", "FAIL")
               /\ UNCHANGED <<tests, progress, kvm, vm, vmRun, kvm_name, maintenance,
                              passes, ghStatus, general_data, results, result_files,
                              comments, vm_data, now>>
       ELSE /\ \E type \in {"progress", "finish"} :
                 response' = Response(test_id, token, type, "FAIL")
            /\ UNCHANGED <<tests, progress, kvm, vm, vmRun, kvm_name, maintenance,
                           passes, ghStatus, general_data, results, result_files,
                              comments, vm_data, now>>

\* the reports of a virtual machine that posts statuses of the given set, cap at
\* most per test
capped_reporter(statuses, cap) ==
    \E t \in TestIds, st \in statuses :
        Len(progress[t]) < cap /\ ProgressReport(t, st, "reported")

progress_reporter(statuses) == capped_reporter(statuses, MaxEvents)

finish_reporter ==
    \E t \in TestIds, rt \in RegressionTests, rc \in 0..1 : FinishReport(t, rt, rc)

file_reporter ==
    \/ \E t \in TestIds, rt \in RegressionTests, has_rto \in BOOLEAN :
          EqualityReport(t, rt, has_rto)
    \/ \E t \in TestIds, rt \in RegressionTests : UploadReport(t, rt)

\* blocked_users, lines 1283-1300: the queued tests of a pull request of a newly
\* blocked user are canceled, one commit per test.
CancelQueued(t) ==
    /\ t \in DOMAIN tests
    /\ tests[t].pr_nr # 0
    /\ Len(progress[t]) = 0
    /\ progress' = [progress EXCEPT ![t] = <<TestProgress("canceled", "PR closed")>>]
    /\ ghStatus' = [ghStatus EXCEPT ![t] = "failure"]
    /\ UNCHANGED <<tests, kvm, vm, vmRun, kvm_name, maintenance, passes, ingest, now>>

\* The categories; kvm_processor iterates them by descending id (line 233).
Categories == {1, 2}
CategoryOrder == <<2, 1>>

\* ci-tests before the first generation
NoTestFiles == [category_tests |-> [c \in Categories |-> {}], regression_ids |-> {},
                files |-> <<>>, TestAll |-> <<>>]

\* Lines 268-283: the <correct> of the output file of regression test rt (each
\* regression test has one output file), last_commit being the first test of the
\* pinned commit: the file named by "got" of a TestResultFile row of last_commit
\* with "got" set, the canonical filename_correct when there is no such row.
correct(rt, last_commit) ==
    LET last_commit_files == {f \in result_files : /\ f.test_id = last_commit
                                                    /\ f.regression_test_id = rt
                                                    /\ f.got # None}
    IN  IF last_commit_files = {}
        THEN [source |-> "filename_correct", got |-> None]
        ELSE [source |-> "last_commit", got |-> (CHOOSE f \in last_commit_files : TRUE).got]

\* Lines 248-285: the entries of the file of a category
single_test(category_tests, regression_ids, c, last_commit) ==
    [rt \in category_tests[c] \cap regression_ids |-> correct(rt, last_commit)]

\* the file of every category is written
should_write_xml_always(entries) == TRUE

\* Lines 247-252 and 286-287: the file of a category is written when an entry was
\* added to it
should_write_xml(entries) == DOMAIN entries # {}

\* Lines 242-294: TestAll.xml lists the files written, in the order of the
\* categories
RECURSIVE multi_test(_, _, _)
multi_test(order, category_tests, regression_ids) ==
    IF order = <<>> THEN <<>>
    ELSE LET c == Head(order)
             rest == multi_test(Tail(order), category_tests, regression_ids)
         IN  IF /\ Cardinality(category_tests[c]) # 0
                /\ should_write_xml([rt \in category_tests[c] \cap regression_ids |-> TRUE])
             THEN <<c>> \o rest
             ELSE rest

\* kvm_processor, lines 231-294 ("1) Generate test files"), for the test t the pass
\* has selected: category_tests is the catalog (the regression tests of each
\* category), regression_ids is test.get_customized_regressiontests().
GenerateTestFiles(t, category_tests, regression_ids) ==
    LET last_commit == fetch_commit(general_data, tests[t].platform)
        TestAll == multi_test(CategoryOrder, category_tests, regression_ids)
    IN
    /\ t \in DOMAIN tests
    /\ vm_data' = [category_tests |-> category_tests, regression_ids |-> regression_ids,
                   files |-> [i \in 1..Len(TestAll) |->
                                [name |-> TestAll[i],
                                 entries |-> single_test(category_tests, regression_ids,
                                                         TestAll[i], last_commit)]],
                   TestAll |-> TestAll]
    /\ UNCHANGED <<tests, progress, kvm, vm, vmRun, kvm_name, maintenance, passes,
                   ghStatus, general_data, results, result_files, response, samples,
                   handlers, comments, now>>

\* A user of GitHub comments on pull request 1; the body may contain the names of
\* platforms.
UserComments(platforms) ==
    /\ Len(comments) < MaxComments
    /\ comments' = Append(comments, Comment(1, "user", platforms, NoTest))
    /\ UNCHANGED <<tests, progress, kvm, vm, vmRun, kvm_name, maintenance, passes,
                   ghStatus, general_data, results, result_files, response, samples,
                   handlers, vm_data, now>>

\* The completed report of the windows test t of a pull request, as far as the
\* comments go (line 963); the windows domain is not part of the model.
WindowsCompleted(t) ==
    /\ t \in DOMAIN tests
    /\ tests[t].platform = "windows" /\ tests[t].test_type = "pull_request"
    /\ Len(comments) < MaxComments
    /\ comments' = comment_pr(comments, t, tests[t].pr_nr, tests[t].platform)
    /\ UNCHANGED <<tests, progress, kvm, vm, vmRun, kvm_name, maintenance, passes,
                   ghStatus, general_data, results, result_files, response, samples,
                   handlers, vm_data, now>>

\* the id the database gives the next Test row
NextTestId(ts) == IF DOMAIN ts = {} THEN 1 ELSE -Min({-t : t \in DOMAIN ts}) + 1

\* only the linux test is stored
queue_test_linux_only(ts, commit, test_type, pr_nr) ==
    ts @@ (NextTestId(ts) :> [platform |-> "linux", test_type |-> test_type,
                              fork |-> "main", pr_nr |-> pr_nr, commit |-> commit])

\* queue_test(db, gh_commit, commit, test_type, branch, pr_nr), lines 433-485: the
\* table Test after a linux and a windows test of the commit were added for the
\* Fork row of the canonical repository.
queue_test(ts, commit, test_type, pr_nr) ==
    ts @@ (NextTestId(ts) :> [platform |-> "linux", test_type |-> test_type,
                              fork |-> "main", pr_nr |-> pr_nr, commit |-> commit])
       @@ (NextTestId(ts) + 1 :> [platform |-> "windows", test_type |-> test_type,
                                  fork |-> "main", pr_nr |-> pr_nr, commit |-> commit])

\* The payloads of the webhook: the event of the X-GitHub-Event header, the action,
\* whether a push has an "after" hash, whether the author of the pull request is
\* in BlockedUsers, the commit and the number of the pull request.
Payloads ==
    [event : {"push", "pull_request", "issues"},
     action : {"opened", "synchronize", "reopened", "closed", "edited"},
     after : BOOLEAN, blocked : BOOLEAN, commit : {1}, number : {1}]

\* the payloads start_ci calls queue_test for: lines 579-599 and 605-624
Queues_test(payload) ==
    \/ payload.event = "push" /\ payload.after
    \/ /\ payload.event = "pull_request"
       /\ payload.action \in {"opened", "synchronize", "reopened"}
       /\ ~payload.blocked

\* start_ci, lines 542-712, for a POST with a valid signature.  queue_test posts
\* the status pending for both tests; a pull request of a blocked user gets the
\* status error on its commit and no test; closing a pull request adds a canceled
\* event to its tests without events (lines 626-641, which do not commit:
\* committed tells whether the event reaches the table) and posts failure.
start_ci(payload, committed) ==
    LET id == NextTestId(tests)
        closed == payload.event = "pull_request" /\ payload.action = "closed"
        unstarted == {t \in DOMAIN tests :
                        tests[t].pr_nr = payload.number /\ Len(progress[t]) = 0}
    IN
    /\ Queues_test(payload) => id + 1 <= MaxTests
    /\ tests' = IF Queues_test(payload)
                THEN queue_test(tests, payload.commit,
                                IF payload.event = "push" THEN "commit" ELSE "pull_request",
                                IF payload.event = "push" THEN 0 ELSE payload.number)
                ELSE tests
    /\ ghStatus' = [t \in TestIds |->
                      IF Queues_test(payload) /\ t \in {id, id + 1} THEN "pending"
                      ELSE IF closed /\ t \in unstarted THEN "failure"
                      ELSE ghStatus[t]]
    /\ progress' = [t \in TestIds |->
                      IF closed /\ committed /\ t \in unstarted
                      THEN <<TestProgress("canceled", "PR closed")>>
                      ELSE progress[t]]
    /\ UNCHANGED <<kvm, vm, vmRun, kvm_name, maintenance, passes, ingest, now>>

\* The clock advances.
Tick ==
    /\ now < MaxTime
    /\ now' = now + 1
    /\ UNCHANGED <<tests, progress, kvm, vm, vmRun, kvm_name,
                   maintenance, passes, ghStatus, ingest>>

\* ------------------------------------------------------------ specification
\* The queues at the start: rows queue_test can have added, each test with a
\* commit of its own.  The tests of the platform without a domain are commit tests
\* of the canonical repository.
Queues(ids) ==
    {f \in [ids -> TestRow] :
        \A t \in ids : /\ QueueableRow(f[t])
                       /\ f[t].commit = t
                       /\ f[t].platform # "linux" =>
                              f[t].test_type = "commit" /\ f[t].fork = "main"}

\* The queues of linux tests of any commit: queue_test adds a test for a commit
\* whether or not the commit has a test already.
Requeues(ids) ==
    {f \in [ids -> TestRow] :
        \A t \in ids : QueueableRow(f[t]) /\ f[t].platform = "linux"}

\* A TestResult row of a test that ran before the ones of the queue
OldResult == [test_id |-> NoTest, regression_test_id |-> 1, exit_code |-> 0,
              expected_rc |-> 0]

\* KVM_LINUX_NAME and KVM_WINDOWS_NAME of the configuration: lines 86 and 94.  An
\* installation with the linux domain alone, and one with both domains.
LinuxOnly == [p \in Platforms |-> IF p = "linux" THEN "linux-test" ELSE ""]
BothDomains == [p \in Platforms |-> IF p = "linux" THEN "linux-test" ELSE "windows-test"]

InitNamed(names, queues, old_results, old_files) ==
    /\ tests \in queues
    /\ progress = [t \in TestIds |-> <<>>]
    /\ kvm = {}
    /\ vm = [p \in Platforms |-> "shutoff"]
    /\ vmRun = [p \in Platforms |-> NoTest]
    /\ kvm_name = names
    /\ maintenance = [p \in Platforms |-> FALSE]
    /\ passes = [s \in Slots |-> IdlePass]
    /\ ghStatus = [t \in TestIds |-> "none"]
    /\ general_data = [k \in {FetchCommitKey(p) : p \in Platforms} |-> 0]
    /\ results \in old_results
    /\ result_files \in old_files
    /\ response = NoResponse
    /\ samples = <<>>
    /\ handlers = [h \in Handlers |-> IdleHandler]
    /\ comments = <<>>
    /\ vm_data = NoTestFiles
    /\ now = 0

\* the installation with the linux domain alone
InitFiles(queues, old_results, old_files) == InitNamed(LinuxOnly, queues, old_results, old_files)

\* the tables without TestResultFile rows
InitWith(queues, old_results) == InitFiles(queues, old_results, {{}})

\* The scheduler with concurrent passes over a queue of MaxTests tests; the virtual
\* machine reports the first and the last status of a run, while the test has
\* fewer than MaxReports events.
Init == InitWith(Queues(TestIds), {{OldResult}})

Next ==
    \/ \E s \in Slots : kvm_processor(s)
    \/ capped_reporter({"preparation", "completed"}, MaxReports)
    \/ \E t \in TestIds : CancelQueued(t)
    \/ Tick

Spec == Init /\ [][Next]_vars

\* The progress reporter with every report a virtual machine can post, in every
\* order, for a queue of one test and one pass at a time.
InitIngest == InitWith(Queues({1}), {{}})

NextIngest ==
    \/ kvm_processor(1)
    \/ progress_reporter(TestStatus)
    \/ finish_reporter
    \/ \E t \in TestIds : CancelQueued(t)
    \/ Tick

SpecIngest == InitIngest /\ [][NextIngest]_vars

\* Two tests in a row, reported by their virtual machines, in a database without
\* TestResult rows.
InitChain == InitWith(Queues(TestIds), {{}})

NextChain ==
    \/ kvm_processor(1)
    \/ capped_reporter({"preparation", "completed"}, MaxReports)
    \/ file_reporter

SpecChain == InitChain /\ [][NextChain]_vars

\* The report URL on the network: requests with every test id and token, for a
\* queue of one test.
InitCallback == InitWith(Queues({1}), {{}})

NextCallback ==
    \/ kvm_processor(1)
    \/ \E test_id \in TestIds, token \in Tokens : Callback(test_id, token)

SpecCallback == InitCallback /\ [][NextCallback]_vars

\* The accumulator of the phase times of one platform and one process type, fed
\* every sequence of at most MaxSamples durations of 0..MaxSample seconds.
InitAvg == InitWith(Queues({1}), {{}})

NextAvg == \E time_taken \in 0..MaxSample : FeedSample(time_taken)

SpecAvg == InitAvg /\ [][NextAvg]_vars

\* The queues of tests of pull request 1, on either platform
PullRequests(ids) ==
    {f \in [ids -> TestRow] :
        \A t \in ids : /\ f[t].test_type = "pull_request" /\ f[t].fork = "main"
                       /\ f[t].pr_nr = 1 /\ f[t].commit = t}

\* The comments of a pull request: its tests complete, more than once, while
\* users comment.
InitComment == InitWith(PullRequests(TestIds), {{OldResult}})

NextComment ==
    \/ kvm_processor(1)
    \/ capped_reporter({"completed"}, MaxReports + 1)
    \/ \E t \in TestIds : WindowsCompleted(t)
    \/ \E platforms \in SUBSET Platforms : UserComments(platforms)

SpecComment == InitComment /\ [][NextComment]_vars

\* The TestResultFile rows of the test of the pinned commit: for each regression
\* test none, one without "got" (the output was the expected one) or one with it.
BaselineFiles ==
    {UNION {fs[rt] : rt \in RegressionTests} :
        fs \in [RegressionTests -> {{}} \cup
                    {{TestResultFile(NoTest, rt, got)} : rt \in RegressionTests, got \in {None, 7}}]}

\* The test files of a linux test, for every catalog, customization and set of
\* result files of the pinned test.
InitManifest == InitFiles(Queues({1}), {{OldResult}}, BaselineFiles)

NextManifest ==
    \E t \in TestIds, category_tests \in [Categories -> SUBSET RegressionTests],
       regression_ids \in SUBSET RegressionTests :
        GenerateTestFiles(t, category_tests, regression_ids)

SpecManifest == InitManifest /\ [][NextManifest]_vars

\* The pin of the latest fetched commit: tests of any commit, run one after the
\* other, each reporting its completion.
InitPin == InitWith(Requeues(TestIds), {{OldResult}})

NextPin ==
    \/ kvm_processor(1)
    \/ capped_reporter({"completed"}, MaxReports)

SpecPin == InitPin /\ [][NextPin]_vars

\* The workers of the web server handling the reports of one test at the same
\* time.
InitRace == InitWith(Queues({1}), {{OldResult}})

NextRace ==
    \/ kvm_processor(1)
    \/ \E h \in Handlers, t \in TestIds, st \in {"preparation", "building", "completed"} :
          ReadProgress(h, t, st)
    \/ \E h \in Handlers : WriteProgress(h)

SpecRace == InitRace /\ [][NextRace]_vars

\* The reports of one test while the posts of its status to GitHub succeed or
\* fail.
InitPost == InitWith(Queues({1}), {{OldResult}})

NextPost ==
    \/ kvm_processor(1)
    \/ capped_reporter({"preparation", "testing", "completed"}, MaxReports + 1)
    \/ \E t \in TestIds, st \in {"preparation", "testing", "completed"} :
          Len(progress[t]) < MaxReports + 1 /\ ProgressUnposted(t, st, "reported")
    \/ Tick

SpecPost == InitPost /\ [][NextPost]_vars

\* The webhook: the events of GitHub arrive on an empty queue, and the tests they
\* queue are run.
InitWebhook == InitWith(Queues({}), {{OldResult}})

NextWebhook ==
    \/ \E payload \in Payloads, committed \in BOOLEAN : start_ci(payload, committed)
    \/ kvm_processor(1)
    \/ capped_reporter({"preparation", "completed"}, MaxReports + 1)
    \/ Tick

SpecWebhook == InitWebhook /\ [][NextWebhook]_vars

\* Both platforms with a domain and a commit test of the canonical repository each: the
\* passes of the two platforms and the reports of the two virtual machines in every
\* interleaving.
InitPlatforms ==
    InitNamed(BothDomains,
              {f \in Queues(TestIds) : /\ f[1].platform = "linux" /\ f[1].fork = "main"
                                        /\ f[1].test_type = "commit"
                                        /\ f[2].platform = "windows"},
              {{OldResult}}, {{}})

NextPlatforms ==
    \/ \E s \in Slots : kvm_processor(s)
    \/ capped_reporter({"preparation", "completed"}, MaxReports)
    \/ Tick

SpecPlatforms == InitPlatforms /\ [][NextPlatforms]_vars

\* A virtual machine that posts nothing: one pass at a time over a queue of
\* MaxTests linux tests, and the clock.  Passes for linux keep being started (by the
\* webhook, by the chain of line 977 and by the periodic job), libvirt answers and
\* vm.destroy() succeeds in the end; time passes.
InitExpiry == InitWith(Requeues(TestIds), {{OldResult}})

NextExpiry ==
    \/ kvm_processor(1)
    \/ Tick

FairExpiry ==
    /\ WF_vars(Begin(1, "linux", TRUE, TRUE))
    /\ WF_vars(Tick)

SpecExpiry == InitExpiry /\ [][NextExpiry]_vars /\ FairExpiry

\* The queue of MaxTests linux tests with one pass at a time and a virtual machine
\* that posts nothing.  Time passes while a Kvm row has not run out, long enough
\* for every test to hold the domain once.  Passes for linux keep being started
\* with libvirt reachable; vm.destroy(), the revert to the snapshot and
\* vm.create() succeed whenever they are tried again and again; the outcome of
\* the preparation (clone, fetch, pull request, reset to the commit) is the
\* repository's and GitHub's, and nothing makes a failed one succeed later.
Horizon == MaxTests * KVM_MAX_RUNTIME

Elapse ==
    /\ now < Horizon
    /\ \E k \in kvm : ~Expired(k)
    /\ now' = now + 1
    /\ UNCHANGED <<tests, progress, kvm, vm, vmRun, kvm_name,
                   maintenance, passes, ghStatus, ingest>>

InitQueue == InitWith(Requeues(TestIds), {{OldResult}})

NextQueue ==
    \/ kvm_processor(1)
    \/ Elapse

FairQueue ==
    /\ WF_vars(Begin(1, "linux", TRUE, TRUE))
    /\ WF_vars(Select(1))
    /\ SF_vars(Revert(1, TRUE))
    /\ WF_vars(\E outcome \in {"ok", "fail", "conflict"} : Prepare(1, outcome))
    /\ SF_vars(PowerOn(1, TRUE))
    /\ WF_vars(AddLease(1))
    /\ WF_vars(Elapse)

SpecQueue == InitQueue /\ [][NextQueue]_vars /\ FairQueue

TypeOK ==
    /\ now \in Times \cup 0..Horizon
    /\ \A k \in kvm : k.test_id \in TestIds

\* ------------------------------------------------------------ properties
\* the rank of the statuses that have one
Rank == [preparation |-> 0, building |-> 1, testing |-> 2, completed |-> 3]
Ranked == DOMAIN Rank

LastEvent(t) == progress[t][Len(progress[t])]

\* the events of a test: where both of two successive events have a rank, the
\* rank does not decrease
RankOrdered ==
    \A t \in TestIds : \A i \in 1..(Len(progress[t]) - 1) :
        (progress[t][i].status \in Ranked /\ progress[t][i + 1].status \in Ranked)
            => Rank[progress[t][i].status] <= Rank[progress[t][i + 1].status]

\* a report of a rank below the rank of the last event is appended as canceled,
\* "Duplicate Entries"
LowerRankCoerced ==
    \A t \in TestIds, st \in Ranked :
        ( /\ Len(progress[t]) > 0
          /\ LastEvent(t).status \in Ranked
          /\ Rank[st] < Rank[LastEvent(t).status]
          /\ ProgressReport(t, st, "reported") )
        => progress'[t] = Append(progress[t], TestProgress("canceled", "Duplicate Entries"))

\* C1: the statuses of the events of a test do not decrease in rank, and a report
\* of a lower rank than the last event's is persisted, as canceled with message
\* "Duplicate Entries": it is neither dropped nor persisted with its own status.
C1_RankMonotonic == []RankOrdered /\ [][LowerRankCoerced]_vars

\* a test whose virtual machine reported a status after one of a higher rank
C1_Witness ==
    \E t \in TestIds :
        /\ Len(progress[t]) = 2
        /\ progress[t][1].status \in {"building", "testing"}
        /\ progress[t][2] = TestProgress("canceled", "Duplicate Entries")

\* C2: a progress report for a test whose last event is completed or canceled is
\* rejected: nothing is appended and the endpoint answers "FAIL".
C2_ClosedRejects ==
    [][\A t \in TestIds, st \in TestStatus :
        ( /\ Len(progress[t]) > 0
          /\ LastEvent(t).status \in TerminalStatuses
          /\ ProgressReport(t, st, "reported") )
        => /\ progress'[t] = progress[t]
           /\ progress_type_request(t, st, "reported").answer = "FAIL"]_vars

\* the lease of the domain of platform p, if any
LeasesOf(p) == {k \in kvm : k.name = kvm_name[p]}

HasClosed(t) == \E i \in 1..Len(progress[t]) : progress[t][i].status \in {"completed", "canceled"}

\* C3: there is at most one Kvm row per VM name, whatever the interleaving of the
\* passes.
C3_OneLeasePerName == \A k1 \in kvm, k2 \in kvm : k1.name = k2.name => k1 = k2

\* a pass has powered the domain on and is about to insert its row, and the table
\* holds a row of that name already
C3_Witness ==
    \E s \in Slots :
        /\ passes[s].pc = "addlease"
        /\ LeasesOf(passes[s].platform) # {}

\* C4: no pass reverts the domain of a platform while the test another pass launched
\* on it is still running (the domain runs and the test has no completed or canceled
\* event): there is at most one test in flight per platform.
C4_OneInFlight ==
    [][\A s \in Slots :
        Revert(s, TRUE) =>
            \/ vm[passes[s].platform] = "shutoff"
            \/ HasClosed(vmRun[passes[s].platform])]_vars

\* C5: at the end of a pass that has powered the domain on, a Kvm row binds the VM
\* name to the test of the pass; a pass whose power-on failed adds no row.
C5_PowerOnWithLease ==
    [][\A s \in Slots :
        /\ AddLease(s) =>
              \E k \in kvm' : /\ k.name = kvm_name[passes[s].platform]
                              /\ k.test_id = passes[s].test
        /\ (PowerOn(s, FALSE) \/ (vm[passes[s].platform] # "shutoff" /\ PowerOn(s, TRUE)))
              => kvm' = kvm]_vars

\* C6: a pass that finds the domain running with a Kvm row younger than
\* KVM_MAX_RUNTIME changes nothing and selects no test.
C6_LiveLeaseNoOp ==
    [][\A s \in Slots, p \in Platforms, infra \in BOOLEAN, ok \in BOOLEAN :
        ( /\ vm[p] # "shutoff"
          /\ \E k \in LeasesOf(p) : now - k.timestamp < KVM_MAX_RUNTIME
          /\ Begin(s, p, infra, ok) )
        => UNCHANGED vars]_vars

\* the domain runs under a row that has not run out, and a pass can start
C6_Witness ==
    /\ vm["linux"] = "running"
    /\ \E k \in LeasesOf("linux") : now - k.timestamp < KVM_MAX_RUNTIME
    /\ passes[1].pc = "idle"

\* C7: a pass that finds the domain running with a Kvm row of age KVM_MAX_RUNTIME or
\* more appends canceled, "Runtime exceeded", to the test of the row, deletes the
\* row and powers the domain off; when that fails, the pass ends there.
C7_ExpiredLease ==
    [][\A s \in Slots, p \in Platforms, ok \in BOOLEAN :
        \A k \in LeasesOf(p) :
            ( /\ vm[p] # "shutoff"
              /\ now - k.timestamp >= KVM_MAX_RUNTIME
              /\ Begin(s, p, TRUE, ok) )
            => /\ progress'[k.test_id] =
                      Append(progress[k.test_id], TestProgress("canceled", "Runtime exceeded"))
               /\ k \notin kvm'
               /\ ok => vm'[p] = "shutoff"
               /\ ~ok => (passes'[s].pc = "idle" /\ vm' = vm /\ tests' = tests)]_vars

\* a run was expired and the domain powered off
C7_Witness ==
    \E t \in TestIds :
        /\ Len(progress[t]) > 0
        /\ LastEvent(t) = TestProgress("canceled", "Runtime exceeded")
        /\ vm["linux"] = "shutoff"
        /\ kvm = {}

\* the test the spec has a pass of platform p select
Lowest(S) == CHOOSE t \in S : \A u \in S : t <= u
Unfinished(p) == {t \in DOMAIN tests : tests[t].platform = p /\ ~HasClosed(t)}
Canonical(p) == {t \in Unfinished(p) : tests[t].fork = "main"}

\* C8: a pass selects the lowest id among the unfinished tests of the platform that
\* belong to the canonical repository, else the lowest id among the unfinished tests
\* of the platform, and with no unfinished test it ends; a test with a completed or
\* canceled event is never selected.
C8_Selection ==
    [][\A s \in Slots :
        Select(s) =>
            LET p == passes[s].platform IN
            /\ Unfinished(p) = {} => passes'[s].pc = "idle"
            /\ passes'[s].pc = "revert" =>
                  /\ ~HasClosed(passes'[s].test)
                  /\ passes'[s].test =
                        IF Canonical(p) # {} THEN Lowest(Canonical(p)) ELSE Lowest(Unfinished(p))]_vars

\* a pass has selected test 2, of the canonical repository, before the older
\* unfinished test 1 of a fork
C8_Witness ==
    \E s \in Slots :
        /\ passes[s].pc = "revert" /\ passes[s].test = 2
        /\ 1 \in DOMAIN tests /\ tests[1].fork = "fork" /\ tests[1].platform = "linux"
        /\ ~HasClosed(1)

\* C9: when the test a pass selects is a pull-request test of pull-request number 0,
\* the test is deleted and the pass ends: the domain is left alone and no Kvm row is
\* added.
C9_InvalidDeleted ==
    [][\A s \in Slots :
        LET test == OldestTest(passes[s].platform) IN
        ( /\ test # NoTest
          /\ tests[test].test_type = "pull_request" /\ tests[test].pr_nr = 0
          /\ Select(s) )
        => /\ test \notin DOMAIN tests'
           /\ passes'[s].pc = "idle"
           /\ vm' = vm /\ vmRun' = vmRun
           /\ kvm' \subseteq kvm]_vars

\* an invalid test has been deleted
C9_Witness == \E t \in TestIds : t \notin DOMAIN tests

\* C10: when the pull request of the selected test is not mergeable, the pass
\* appends canceled, "Commit could not be merged", to the test, posts failure and
\* ends without powering the domain on or adding a Kvm row; no later pass selects
\* the test.
C10_NotMergeable ==
    [][\A s \in Slots :
        /\ Prepare(s, "conflict") =>
              /\ progress'[passes[s].test] =
                    Append(progress[passes[s].test],
                           TestProgress("canceled", "Commit could not be merged"))
              /\ ghStatus'[passes[s].test] = "failure"
              /\ passes'[s].pc = "idle"
              /\ vm' = vm /\ kvm' = kvm
        /\ (Select(s) /\ passes'[s].pc = "revert") =>
              \A i \in 1..Len(progress[passes'[s].test]) :
                  progress[passes'[s].test][i].message # "Commit could not be merged"]_vars

\* a test was canceled for a merge conflict, and failure was posted for it
C10_Witness ==
    \E t \in TestIds :
        /\ Len(progress[t]) > 0
        /\ LastEvent(t) = TestProgress("canceled", "Commit could not be merged")
        /\ ghStatus[t] = "failure"

\* C11: one pass adds at most one Kvm row and at most one TestProgress row, on
\* every path through it, the path that first expires a run and then selects the
\* next test included.  (A status is posted by the merge-conflict path alone.)
C11_OnePassOneEffect ==
    [][\A s \in Slots :
        /\ Prepare(s, "conflict") => passes[s].events + 1 <= 1
        /\ \A k1 \in kvm' \ kvm, k2 \in kvm' \ kvm : k1 = k2]_vars

\* the tables of the job store
JobStore == <<kvm, tests, progress>>

\* C20: a pass that ends on a failure of the infrastructure (no libvirt domain, a
\* power-off that fails, no snapshot or a revert that fails, a power-on that fails)
\* has changed no Kvm row, no test and no event.
C20_AbortLeavesState ==
    [][\A s \in Slots :
        /\ \A p \in Platforms, ok \in BOOLEAN :
              Begin(s, p, FALSE, ok) => UNCHANGED JobStore
        /\ \A p \in Platforms :
              (vm[p] # "shutoff" /\ Begin(s, p, TRUE, FALSE)) => UNCHANGED JobStore
        /\ Revert(s, FALSE) => (passes[s].events = 0 /\ UNCHANGED JobStore)
        /\ (PowerOn(s, FALSE) \/ (vm[passes[s].platform] # "shutoff" /\ PowerOn(s, TRUE)))
              => (passes[s].events = 0 /\ UNCHANGED JobStore)]_vars

\* the step appends an event of status st to test t
Appends(t, st) ==
    /\ Len(progress'[t]) = Len(progress[t]) + 1
    /\ progress'[t][Len(progress'[t])].status = st

\* C12: when a completed event is appended the state posted is failure iff the test
\* has a result whose exit code is not the expected one or a result file with "got"
\* set of a case whose expected exit code is 0; else it is success.
C12_Outcome ==
    [][\A t \in TestIds, st \in TestStatus :
        (ProgressReport(t, st, "reported") /\ Appends(t, "completed"))
        => ghStatus'[t] =
              IF \/ \E r \in results : r.test_id = t /\ r.exit_code # r.expected_rc
                 \/ \E f \in result_files :
                       f.test_id = t /\ f.got # None /\ expected_rc(f.regression_test_id) = 0
              THEN "failure" ELSE "success"]_vars

\* C13: a building report for a test whose events are preparation, completed is
\* appended as canceled, "Duplicate Entries", and the state posted for the test
\* becomes error.
C13_LateDuplicate ==
    [][\A t \in TestIds :
        ( /\ Len(progress[t]) = 2
          /\ progress[t][1].status = "preparation" /\ progress[t][2].status = "completed"
          /\ ProgressReport(t, "building", "reported") )
        => /\ progress'[t] = Append(progress[t], TestProgress("canceled", "Duplicate Entries"))
           /\ ghStatus'[t] = "error"]_vars

\* C16: when a report appends a completed or canceled event to a test, no Kvm row
\* of the test is left when the report has been handled.
C16_TerminalFreesLease ==
    [][\A t \in TestIds, st \in TestStatus :
        ( /\ ProgressReport(t, st, "reported")
          /\ (Appends(t, "completed") \/ Appends(t, "canceled")) )
        => \A k \in kvm' : k.test_id # t]_vars

\* C17: a report that appends a completed or canceled event starts a pass for the
\* platform of the test and for no other; a report that appends another status
\* starts none.
C17_ChainedPass ==
    [][\A t \in TestIds, st \in TestStatus :
        ProgressReport(t, st, "reported") =>
            /\ (Appends(t, "completed") \/ Appends(t, "canceled"))
                  => progress_type_request(t, st, "reported").started = {tests[t].platform}
            /\ (\E s2 \in {"preparation", "building", "testing"} : Appends(t, s2))
                  => progress_type_request(t, st, "reported").started = {}]_vars

\* C14: a request with a token that is not the token of the test, or with the id
\* of no test, is answered "FAIL" and changes no table, domain or posted state.
C14_Unauthorized ==
    [][\A test_id \in TestIds, token \in Tokens :
        ( /\ test_id \notin DOMAIN tests \/ token # Token(test_id)
          /\ Callback(test_id, token) )
        => /\ response'.answer = "FAIL"
           /\ UNCHANGED <<tests, progress, kvm, vm, vmRun, kvm_name, maintenance,
                          passes, ghStatus, general_data, results, result_files>>]_vars

\* a request with a wrong token was answered for a test whose domain runs
C14_Witness ==
    /\ response.answer = "FAIL"
    /\ response.test_id \in DOMAIN tests
    /\ response.token # Token(response.test_id)
    /\ \E p \in Platforms : vmRun[p] = response.test_id

RECURSIVE Sum(_)
Sum(seq) == IF seq = <<>> THEN 0 ELSE Head(seq) + Sum(Tail(seq))

\* C15: after the samples s1..sn were fed one at a time, the stored count is n and
\* the stored average is sum(s1..sn)/n.
C15_RunningMean ==
    Len(samples) >= 1 =>
        /\ general_data[CountKey("prep", "linux")] = Len(samples)
        /\ general_data[ValKey("prep", "linux")].num * Len(samples)
              = Sum(samples) * general_data[ValKey("prep", "linux")].den

\* the test the pin of platform p points at: the first test of the pinned commit
PinnedTest(p) == fetch_commit(general_data, p)

\* C18: the pin of a platform changes only when a completed event is appended for a
\* commit test of the canonical repository whose id is greater than the id of the
\* pinned test, and the id of the pinned test never decreases.
C18_PinForward ==
    [][\A p \in Platforms :
        /\ general_data'[FetchCommitKey(p)] # general_data[FetchCommitKey(p)]
              => \E t \in DOMAIN tests :
                    /\ Appends(t, "completed")
                    /\ tests[t].platform = p /\ tests[t].test_type = "commit"
                    /\ tests[t].fork = "main" /\ t > PinnedTest(p)
        /\ fetch_commit(general_data', p) >= PinnedTest(p)]_vars

\* C19: the reports of one test are handled one after the other: what a handler
\* commits is what handling its report alone on the committed tables gives, so no
\* two reports are both decided on the same last status.
C19_SerialCallbacks ==
    [][\A h \in Handlers :
        WriteProgress(h) =>
            progress_type_request_at(handlers[h].seen, handlers[h].test,
                                     handlers[h].status, "reported")
            = progress_type_request(handlers[h].test, handlers[h].status, "reported")]_vars

\* C21: a progress report is committed or rejected as a whole: a report whose
\* event is not appended leaves the Kvm rows, the statistics, the pin and the
\* events as they were.
C21_AllOrNothing ==
    [][\A t \in TestIds, st \in TestStatus :
        (ProgressReport(t, st, "reported") /\ progress'[t] = progress[t])
        => UNCHANGED <<kvm, general_data, progress>>]_vars

\* C22: when the post of the status fails for a progress report, the event is
\* appended all the same, a terminal event still deletes the Kvm row of the test
\* and starts a pass for its platform, and the report is answered "OK".
C22_PostFailureNotFatal ==
    [][\A t \in TestIds, st \in TestStatus :
        ProgressUnposted(t, st, "reported") =>
            LET out == progress_type_request_post(t, st, "reported", FALSE) IN
            /\ out.answer = "OK"
            /\ Len(progress'[t]) = Len(progress[t]) + 1
            /\ LastEvent(t)'.status \in TerminalStatuses =>
                  /\ \A k \in kvm' : k.test_id # t
                  /\ out.started = {tests[t].platform}
            /\ ghStatus' = ghStatus]_vars

\* a completed event was appended and the lease deleted while no status was posted
C22_Witness ==
    \E t \in DOMAIN tests :
        /\ Len(progress[t]) > 0 /\ LastEvent(t).status = "completed"
        /\ ghStatus[t] = "none"
        /\ KvmByTest(t) = {}
        /\ AverageTimeKey(tests[t].platform) \in DOMAIN general_data

\* C23: a test has at most one TestResult row per regression test, and a finish
\* request for a pair that has a row stores none, leaves the row and the events
\* of the test as they were and is not answered "OK".
C23_DuplicateFinish ==
    [][\A test_id \in TestIds, token \in Tokens :
        ( /\ Callback(test_id, token)
          /\ response'.type = "finish" /\ Authorized(test_id, token)
          /\ \E rt \in RegressionTests : \E r \in results :
                /\ r.test_id = test_id /\ r.regression_test_id = rt
                /\ FinishHandled(test_id, rt, 1) )
        => /\ results' = results /\ progress' = progress
           /\ \A r1 \in results', r2 \in results' :
                 (r1.test_id = r2.test_id /\ r1.regression_test_id = r2.regression_test_id)
                    => r1 = r2
           /\ response'.answer # "OK"]_vars

\* C24: a push with an "after" hash and a pull request opened, synchronized or
\* reopened by a user who is not blocked add exactly two tests, a linux and a
\* windows one of the same commit, kind and pull-request number; nothing else of
\* the webhook adds a test.
C24_TwoTestsPerTrigger ==
    [][\A payload \in Payloads, committed \in BOOLEAN :
        start_ci(payload, committed) =>
            LET new == DOMAIN tests' \ DOMAIN tests
                kind == IF payload.event = "push" THEN "commit" ELSE "pull_request"
                nr == IF payload.event = "push" THEN 0 ELSE payload.number
            IN  /\ \A t \in DOMAIN tests : t \in DOMAIN tests' /\ tests'[t] = tests[t]
                /\ IF Queues_test(payload)
                   THEN /\ Cardinality(new) = 2
                        /\ {tests'[t].platform : t \in new} = {"linux", "windows"}
                        /\ \A t \in new : /\ tests'[t].commit = payload.commit
                                          /\ tests'[t].test_type = kind
                                          /\ tests'[t].pr_nr = nr
                   ELSE new = {}]_vars

\* the two tests of a pull request are queued
C24_Witness ==
    /\ DOMAIN tests = {1, 2}
    /\ tests[1].platform = "linux" /\ tests[2].platform = "windows"
    /\ tests[1].test_type = "pull_request" /\ tests[2].test_type = "pull_request"
    /\ tests[1].commit = tests[2].commit /\ tests[1].pr_nr = 1 /\ tests[2].pr_nr = 1
    /\ ghStatus[1] = "pending" /\ ghStatus[2] = "pending"

\* the comments of the bot on pull request pr_nr that name platform p
BotComments(cs, pr_nr, p) ==
    {i \in 1..Len(cs) : cs[i].pr_nr = pr_nr /\ cs[i].login = "bot" /\ p \in cs[i].platforms}

\* the step calls comment_pr for test t
Commenting(t) ==
    \/ WindowsCompleted(t)
    \/ /\ ProgressReport(t, "completed", "reported")
       /\ tests[t].test_type = "pull_request"
       /\ progress_type_request(t, "completed", "reported").answer = "OK"
       /\ progress_type_request(t, "completed", "reported").event.status = "completed"

InScope(c) == vm_data.category_tests[c] \cap vm_data.regression_ids

\* C26: a regression test has an entry in the file of a category iff it belongs to
\* the category and is in the customization of the test; a category has a file,
\* listed in TestAll, iff it has such a regression test; TestAll lists the
\* categories in the order of the iteration, each once.
C26_Manifest ==
    /\ \A i \in 1..Len(vm_data.files) :
          /\ vm_data.files[i].name = vm_data.TestAll[i]
          /\ DOMAIN vm_data.files[i].entries = InScope(vm_data.files[i].name)
    /\ Len(vm_data.files) = Len(vm_data.TestAll)
    /\ \A c \in Categories :
          (\E i \in 1..Len(vm_data.TestAll) : vm_data.TestAll[i] = c) <=> InScope(c) # {}
    /\ \A i \in 1..Len(vm_data.TestAll), j \in 1..Len(vm_data.TestAll) :
          i < j => vm_data.TestAll[i] > vm_data.TestAll[j]

\* category 2 has a file with one of its two regression tests, category 1 has
\* regression tests but none of the customization, and no file
C26_Witness ==
    /\ vm_data.TestAll = <<2>>
    /\ vm_data.category_tests[2] = {1, 2} /\ vm_data.category_tests[1] = {2}
    /\ vm_data.regression_ids = {1}
    /\ DOMAIN vm_data.files[1].entries = {1}

\* C27: the <correct> of an output file is the file of the run of the pinned
\* commit iff that run has a passing result file (one without "got") for the
\* regression test, and else the canonical correct file.
C27_CorrectReference ==
    \A i \in 1..Len(vm_data.files) : \A rt \in DOMAIN vm_data.files[i].entries :
        LET passing == \E f \in result_files :
                          /\ f.test_id = fetch_commit(general_data, "linux")
                          /\ f.regression_test_id = rt /\ f.got = None
        IN  vm_data.files[i].entries[rt].source =
                IF passing THEN "last_commit" ELSE "filename_correct"

\* what the tables and the hypervisor hold for platform q: its Kvm rows, the state
\* of its domain, its tests with their events, and its GeneralData rows
PlatformState(q) ==
    <<LeasesOf(q), vm[q],
      [t \in {u \in DOMAIN tests : tests[u].platform = q} |-> <<tests[t], progress[t]>>],
      [k \in {x \in DOMAIN general_data : x[Len(x)] = q} |-> general_data[k]]>>

\* a step of a pass for platform p
PassStep(s, p) ==
    \/ \E infra \in BOOLEAN, ok \in BOOLEAN : Begin(s, p, infra, ok)
    \/ passes[s].pc # "idle" /\ passes[s].platform = p /\ kvm_processor(s)

\* a progress report of a test of platform p
ReportStep(t, p) ==
    /\ t \in DOMAIN tests /\ tests[t].platform = p
    /\ \E st \in TestStatus : ProgressReport(t, st, "reported")

\* C28: a step of a pass for one platform, and a progress report of a test of one
\* platform, leave the Kvm rows, the domain, the tests, the events and the
\* GeneralData rows of the other platform as they are; and with the domain of the
\* other platform running, a pass still gets past the check of its own domain,
\* selects its test and powers its domain on.
C28_PlatformsIndependent ==
    [][\A p \in Platforms, q \in Platforms : p # q =>
        /\ \A s \in Slots : PassStep(s, p) => PlatformState(q)' = PlatformState(q)
        /\ \A t \in TestIds : ReportStep(t, p) => PlatformState(q)' = PlatformState(q)
        /\ \A s \in Slots : vm[q] # "shutoff" =>
              /\ \A ok \in BOOLEAN :
                    (vm[p] = "shutoff" /\ ~maintenance[p] /\ Begin(s, p, TRUE, ok))
                        => passes'[s].pc = "select"
              /\ (passes[s].platform = p /\ Select(s) /\ OldestTest(p) # NoTest
                       /\ ~InvalidTest(tests[OldestTest(p)]))
                    => passes'[s].test = OldestTest(p) /\ passes'[s].pc = "revert"
              /\ (passes[s].platform = p /\ vm[p] = "shutoff" /\ PowerOn(s, TRUE))
                    => vm'[p] = "running" /\ vmRun'[p] = passes[s].test]_vars

\* both domains run, each under the Kvm row of its own test, and the linux test
\* has reported while the windows one has not
C28_Witness ==
    /\ vm["linux"] = "running" /\ vm["windows"] = "running"
    /\ \E k \in LeasesOf("linux") : k.test_id = 1
    /\ \E k \in LeasesOf("windows") : k.test_id = 2
    /\ Len(progress[1]) > 0 /\ Len(progress[2]) = 0

\* test t runs on the linux domain under its Kvm row, and the row runs out within
\* the time the model covers
Launched(t) ==
    /\ vm["linux"] = "running" /\ vmRun["linux"] = t
    /\ \E k \in LeasesOf("linux") :
          k.test_id = t /\ k.timestamp + KVM_MAX_RUNTIME <= MaxTime

\* test t has the event of a run that took too long, no Kvm row, and the domain is
\* shut off
Reclaimed(t) ==
    /\ \E i \in 1..Len(progress[t]) :
          progress[t][i] = TestProgress("canceled", "Runtime exceeded")
    /\ KvmByTest(t) = {}
    /\ vm["linux"] = "shutoff"

\* C29: a launched test whose virtual machine posts nothing gets, once its Kvm row
\* is KVM_MAX_RUNTIME old and a pass runs that can power the domain off, a
\* canceled event, its Kvm row is deleted and the domain is shut off, free for the
\* next test; and no step appends the event of a run that took too long to a
\* test whose Kvm row is younger than KVM_MAX_RUNTIME.
C29_ExpiryReclaims ==
    /\ \A t \in TestIds : Launched(t) ~> Reclaimed(t)
    /\ [][\A t \in TestIds :
            (t \in DOMAIN tests /\ Len(progress'[t]) = Len(progress[t]) + 1
               /\ progress'[t][Len(progress'[t])].status = "canceled"
               /\ progress'[t][Len(progress'[t])].message = "Runtime exceeded")
            => \E k \in KvmByTest(t) : now - k.timestamp >= KVM_MAX_RUNTIME]_vars

\* the first test was canceled for its running time and the next one runs on the
\* domain
C29_Witness ==
    /\ KvmByTest(1) = {}
    /\ \E i \in 1..Len(progress[1]) :
          progress[1][i] = TestProgress("canceled", "Runtime exceeded")
    /\ vm["linux"] = "running" /\ vmRun["linux"] = 2

\* the rows of the phase-time accumulators in GeneralData
PhaseRows(gd) ==
    [k \in {x \in DOMAIN gd : x[1] \in {"avg_time", "avg_count"}} |-> gd[k]]

\* the report of status st for test t is forward progress
Forward(t, st) ==
    /\ t \in DOMAIN tests /\ Len(progress[t]) > 0
    /\ progress_step(LastEvent(t).status) < progress_step(st)

\* C30: a report of forward progress with status building sets the prep-finished
\* timestamp of the Kvm row to now and feeds the one sample now - timestamp to the
\* prep accumulator of the platform; with status testing it sets the
\* build-finished timestamp to now and feeds the one sample now - prep-finished
\* to the build accumulator; then the event is appended.  No other report changes
\* an accumulator.
C30_PhaseTimes ==
    [][\A t \in TestIds, st \in TestStatus :
        ProgressReport(t, st, "reported") =>
            IF Forward(t, st) /\ st \in {"building", "testing"}
            THEN \E k \in KvmByTest(t) :
                   /\ progress'[t] = Append(progress[t], TestProgress(st, "reported"))
                   /\ IF st = "building"
                      THEN /\ [k EXCEPT !.timestamp_prep_finished = now] \in kvm'
                           /\ PhaseRows(general_data') =
                                 PhaseRows(set_avg_time(general_data, tests[t].platform,
                                                        "prep", now - k.timestamp))
                      ELSE /\ [k EXCEPT !.timestamp_build_finished = now] \in kvm'
                           /\ PhaseRows(general_data') =
                                 PhaseRows(set_avg_time(general_data, tests[t].platform,
                                                        "build",
                                                        now - k.timestamp_prep_finished))
            ELSE PhaseRows(general_data') = PhaseRows(general_data)]_vars

\* the report of status st for test t is the first one of the test, or has the
\* rank of the last event
SameRank(t, st) ==
    /\ t \in DOMAIN tests
    /\ Len(progress[t]) > 0 => progress_step(LastEvent(t).status) = progress_step(st)

\* the prep-finished and build-finished timestamps of the Kvm rows of test t
Stamps(rows, t) ==
    {<<k.timestamp_prep_finished, k.timestamp_build_finished>> :
        k \in {r \in rows : r.test_id = t}}

\* C31: the first report of a test, and a report of the rank of the last event,
\* is appended with its status and message as reported, sets no timestamp of a
\* Kvm row and changes no accumulator; a status reported again is one more event.
C31_SameRankAppended ==
    [][\A t \in TestIds, st \in TestStatus :
        (SameRank(t, st) /\ ProgressReport(t, st, "reported")) =>
            /\ progress'[t] = Append(progress[t], TestProgress(st, "reported"))
            /\ Stamps(kvm', t) \subseteq Stamps(kvm, t)
            /\ PhaseRows(general_data') = PhaseRows(general_data)]_vars

\* building was reported twice in a row and is there twice, the Kvm row without a
\* timestamp of a phase
C31_Witness ==
    /\ Len(progress[1]) = 2
    /\ progress[1][1] = TestProgress("building", "reported")
    /\ progress[1][2] = TestProgress("building", "reported")
    /\ \E k \in KvmByTest(1) : k.timestamp_prep_finished = None

\* C32: a pass that finds the domain running and no Kvm row of its name, and whose
\* vm.destroy() succeeds, shuts the domain off, appends no event, changes no table
\* and goes on to the selection of the test to run.
C32_OrphanedRun ==
    [][\A s \in Slots, p \in Platforms :
        ( /\ vm[p] # "shutoff"
          /\ LeasesOf(p) = {}
          /\ ~maintenance[p]
          /\ Begin(s, p, TRUE, TRUE) )
        => /\ vm'[p] = "shutoff"
           /\ progress' = progress
           /\ kvm' = kvm /\ tests' = tests
           /\ passes'[s].pc = "select" /\ passes'[s].platform = p]_vars

\* the domain runs a test that has no terminal event, there is no Kvm row, and a
\* pass can start
C32_Witness ==
    /\ vm["linux"] = "running"
    /\ LeasesOf("linux") = {}
    /\ vmRun["linux"] \in DOMAIN tests /\ ~HasClosed(vmRun["linux"])
    /\ \A s \in Slots : passes[s].pc = "idle"

\* the payload of a pull request that was closed
Closes(payload) == payload.event = "pull_request" /\ payload.action = "closed"

\* C33: when a pull request is closed, or its author blocked, every test of the
\* pull request without an event gets the one event canceled and every other test
\* keeps its events; and no pass selects a test that has a canceled event.
C33_ClosedCancelsQueued ==
    [][/\ \A payload \in Payloads, committed \in BOOLEAN :
            (Closes(payload) /\ start_ci(payload, committed)) =>
                \A t \in DOMAIN tests :
                    progress'[t] =
                        IF tests[t].pr_nr = payload.number /\ Len(progress[t]) = 0
                        THEN <<TestProgress("canceled", "PR closed")>>
                        ELSE progress[t]
       /\ \A t \in TestIds :
            CancelQueued(t) =>
                /\ progress'[t] = <<TestProgress("canceled", "PR closed")>>
                /\ \A u \in DOMAIN tests \ {t} : progress'[u] = progress[u]
       /\ \A s \in Slots :
            (Select(s) /\ passes'[s].pc = "revert") => ~HasClosed(passes'[s].test)]_vars

\* the positions of the terminal events of test t
TerminalEvents(t) == {i \in 1..Len(progress[t]) : progress[t][i].status \in TerminalStatuses}

\* C34: no test has more than one event completed or canceled, whoever wrote
\* them: the reporter, the pass (running time, merge) or the cancellation of the
\* tests of a pull request.
C34_OneTerminalEvent ==
    \A t \in TestIds : Cardinality(TerminalEvents(t)) <= 1

\* C35: every Kvm row is the row of a test that is in the table Test and has no
\* event completed or canceled.
C35_LeaseOfLiveTest ==
    \A k \in kvm : k.test_id \in DOMAIN tests /\ ~HasClosed(k.test_id)

\* C36: with passes that keep being started and virtual-machine operations that
\* succeed, every test of the queue gets an event completed or canceled, or is
\* deleted, in the end; a test whose preparation ends without an event does not
\* keep the tests after it from running.
C36_QueueProgress ==
    \A t \in TestIds : (t \in DOMAIN tests) ~> (t \notin DOMAIN tests \/ HasClosed(t))

\* C37: the pass deletes the Kvm row of its domain (lines 177-182) only while the
\* domain is shut off, and it reverts the domain only while the domain is shut
\* off or the test that runs on it has a completed or canceled event, whatever
\* another pass for the platform did since the pass saw the domain shut off.
C37_StaleCleanup ==
    [][\A s \in Slots :
        LET p == passes[s].platform IN
        /\ (Select(s) /\ kvm' # kvm) => vm[p] = "shutoff"
        /\ Revert(s, TRUE) =>
              \/ vm[p] = "shutoff"
              \/ vmRun[p] # NoTest /\ HasClosed(vmRun[p])]_vars

\* C38: a report of forward progress is handled to the end and appends the one
\* event of the reported status, whatever statuses lie between the last one and
\* the reported one, and with or without a Kvm row of the test.
C38_ForwardAppended ==
    [][\A t \in TestIds, st \in TestStatus :
        (Forward(t, st) /\ ProgressReport(t, st, "reported")) =>
            /\ ~Step1(t, st, "reported").raised
            /\ progress'[t] = Append(progress[t], TestProgress(st, "reported"))]_vars
====
